---- MODULE Spec2Model ----
(***************************************************************************)
(* Invitation-code lifecycle and registration transaction of               *)
(* backend/server.js: the users and invitation_codes tables, the           *)
(* validateInvitation middleware, the /api/register handler with its       *)
(* BEGIN .. COMMIT / ROLLBACK block, /api/verify-invitation, the           *)
(* administrative creation and listing of invitation codes, /api/login,    *)
(* and authenticateToken with the routes behind it.                        *)
(*                                                                         *)
(* The database is PostgreSQL at its default isolation level (READ         *)
(* COMMITTED): statements sent through the pool see committed rows only,   *)
(* rows written inside a transaction become visible at COMMIT, an INSERT   *)
(* that meets an uncommitted row with the same unique key waits for that   *)
(* transaction to end, and NOW() is the start time of the transaction.     *)
(* Every await of a handler is a point where other requests may run.       *)
(***************************************************************************)
EXTENDS Integers, Sequences, FiniteSets, TLC

\* ---------------------------------------------------------------- bounds
NumReqs == 2        \* concurrent POST /api/register requests
MaxTime == 2        \* the clock runs over 1..MaxTime (one unit = one day)
MaxInvSeq == 2      \* INSERTs into invitation_codes (values of its id sequence)
MaxAuthTime == 9    \* the clock of the token specification runs over 1..MaxAuthTime
MaxPlaidItems == 1  \* INSERTs into plaid_items (values of its id sequence)

\* ------------------------------------------------------ program constants
NULL == 0                     \* SQL NULL of the nullable integer/timestamp columns
DefaultExpiresInDays == 30    \* expiresInDays = 30
TokenDays == 7                \* expiresIn: '7d'

\* ------------------------------------------------------------ input sets
Reqs == 1..NumReqs
Times == 1..MaxTime
Emails == {"a@x.com", "b@y.com"}
Codes == {"ABC123", "XYZ789"}
NoCode == ""                  \* a body without invitationCode (falsy)
NoDays == -1                  \* a body without expiresInDays (undefined)
DaysInputs == {NoDays, 0}
Passwords == {"secret1"}
AdminKey == "admin-secret"    \* process.env.ADMIN_KEY
AdminKeyInputs == {AdminKey, "wrong", "none"}
JwtSecret == "jwt-secret"     \* process.env.JWT_SECRET

VARIABLES
    now,          \* the clock (new Date() and NOW())
    users,        \* committed rows of table users
    invitations,  \* committed rows of table invitation_codes
    userSeq,      \* last value of users_id_seq
    invSeq,       \* last value of invitation_codes_id_seq
    req,          \* the register requests: position and locals of each
    last,         \* response of the last request other than a register request
    plaidItems,   \* rows of table plaid_items
    plaidSeq,     \* last value of plaid_items_id_seq
    listing       \* the GET /api/admin/invitations request in flight

vars ==
    <<now, users, invitations, userSeq, invSeq, req, last, plaidItems, plaidSeq,
      listing>>

\* ------------------------------------------------------------- helpers
\* 'SELECT * FROM invitation_codes WHERE code = $1' -> result.rows
SelectByCode(code) ==
    IF \E i \in invitations : i.code = code
    THEN <<CHOOSE i \in invitations : i.code = code>>
    ELSE <<>>

\* invitation.email.split('@')[1]
EmailDomain(email) ==
    CASE email = "a@x.com" -> "x.com"
      [] email = "b@y.com" -> "y.com"
      [] OTHER -> ""

\* bcrypt.hash(password, saltRounds)
BcryptHash(password) == <<"bcrypt", password>>

\* (mutant) the payload signed without the id of the new user
JwtSign_NoUserId(userId, email, secret, at) ==
    [userId |-> NULL, email |-> email, iat |-> at, exp |-> at + TokenDays,
     sig |-> secret]

\* jwt.sign({userId, email}, JWT_SECRET, {expiresIn: '7d'})
JwtSign(userId, email, secret, at) ==
    [userId |-> userId, email |-> email, iat |-> at, exp |-> at + TokenDays,
     sig |-> secret]

NoToken == [userId |-> NULL, email |-> "", iat |-> NULL, exp |-> NULL, sig |-> ""]

\* (mutant) the exp claim not checked
JwtVerify_IgnoreExp(token, secret, at) ==
    IF token.sig = secret
    THEN <<[userId |-> token.userId, email |-> token.email]>>
    ELSE <<>>

\* jwt.verify(token, JWT_SECRET): the payload, or <<>> when it is rejected
JwtVerify(token, secret, at) ==
    IF token.sig = secret /\ at < token.exp
    THEN <<[userId |-> token.userId, email |-> token.email]>>
    ELSE <<>>

\* The error of jwt.verify: the signature is checked before the exp claim.
JwtError(token, secret, at) ==
    IF token.sig # secret THEN "JsonWebTokenError"
    ELSE IF at >= token.exp THEN "TokenExpiredError"
    ELSE ""

\* bcrypt.compare(password, user.password_hash)
BcryptCompare(password, hash) == hash = BcryptHash(password)

\* (mutant) the comparison with >= in place of >
IsExpired_Inclusive(invitation, at) ==
    invitation.expires_at # NULL /\ at >= invitation.expires_at

\* invitation.expires_at && new Date() > new Date(invitation.expires_at)
IsExpired(invitation, at) ==
    invitation.expires_at # NULL /\ at > invitation.expires_at

IdleReq ==
    [pc |-> "idle", email |-> "", password |-> "", code |-> NoCode,
     rows |-> <<>>, txNow |-> NULL, userId |-> NULL,
     updated |-> FALSE, committed |-> FALSE, errcode |-> "",
     status |-> 0, error |-> "", token |-> NoToken]

NoStats == [total |-> 0, used_count |-> 0, available |-> 0, expired |-> 0]

\* op and code are the route and the invitationCode of the request answered;
\* status is the status of the response and the other fields are its body
\* (invitations, stats: the admin listing; token: login); calls is the number
\* of calls the handler made to the Plaid client.
NoResp == [op |-> "none", code |-> NoCode, status |-> 0, error |-> "",
           valid |-> FALSE, emailDomain |-> "", invitations |-> <<>>,
           stats |-> NoStats, token |-> NoToken, calls |-> 0]

\* No admin listing is between its two queries.
NoListing == [pc |-> "idle", rows |-> <<>>]

Init ==
    /\ now = 1
    /\ users = {}
    /\ invitations = {}
    /\ userSeq = 0
    /\ invSeq = 0
    /\ req = [r \in Reqs |-> IdleReq]
    /\ last = NoResp
    /\ plaidItems = {}
    /\ plaidSeq = 0
    /\ listing = NoListing

\* The clock advances (up to limit).
Advance(limit) ==
    /\ now < limit
    /\ now' = now + 1
    /\ UNCHANGED <<users, invitations, userSeq, invSeq, req, last, plaidItems,
                   plaidSeq, listing>>

Tick == Advance(MaxTime)

TickAuth == Advance(MaxAuthTime)

\* ------------------------------------------------- POST /api/register
\* Rows written by transactions that are open and have not ended.
PendingInsert(q) ==
    req[q].pc \in {"update", "commit", "rollback"}
        /\ req[q].userId # NULL /\ ~req[q].committed

PendingUpdate(q) ==
    req[q].pc \in {"commit", "rollback"} /\ req[q].updated /\ ~req[q].committed

\* The response of request r: the handler returns and its locals (the row
\* read, the client and its transaction) are gone.
Respond(q, status, error, token) ==
    [q EXCEPT !.pc = "done", !.rows = <<>>, !.txNow = NULL, !.updated = FALSE,
              !.status = status, !.error = error, !.token = token]

\* (mutant) the expiry check placed before the used check
ValidationError_ExpiryFirst(rows, email, at) ==
    IF Len(rows) = 0 THEN "Invalid invitation code"
    ELSE IF rows[1].expires_at # NULL /\ at > rows[1].expires_at
         THEN "Invitation code has expired"
    ELSE IF rows[1].used THEN "Invitation code already used"
    ELSE IF email # rows[1].email THEN "Email does not match invitation"
    ELSE ""

\* (mutant) the handler without its comparison of the two emails
ValidationError_NoEmailCheck(rows, email, at) ==
    IF Len(rows) = 0 THEN "Invalid invitation code"
    ELSE IF rows[1].used THEN "Invitation code already used"
    ELSE IF rows[1].expires_at # NULL /\ at > rows[1].expires_at
         THEN "Invitation code has expired"
    ELSE ""

\* The checks of validateInvitation on the row read, then next() and the
\* handler's email comparison: the error reported, or "" when all pass.
ValidationError(rows, email, at) ==
    IF Len(rows) = 0 THEN "Invalid invitation code"
    ELSE IF rows[1].used THEN "Invitation code already used"
    ELSE IF IsExpired(rows[1], at) THEN "Invitation code has expired"
    ELSE IF email # rows[1].email THEN "Email does not match invitation"
    ELSE ""

\* The request arrives; validateInvitation runs up to its first await.
\* (Requests are numbered in their order of arrival.)
RegisterArrive(r, email, password, code) ==
    /\ req[r].pc = "idle"
    /\ \A q \in Reqs : q < r => req[q].pc # "idle"
    /\ LET q == [req[r] EXCEPT !.email = email, !.password = password, !.code = code]
       IN  req' = [req EXCEPT ![r] =
                IF code = NoCode
                THEN Respond(q, 400, "Invitation code required", NoToken)
                ELSE [q EXCEPT !.pc = "select"]]
    /\ UNCHANGED <<now, users, invitations, userSeq, invSeq, last, plaidItems,
                   plaidSeq, listing>>

\* await pool.query('SELECT * FROM invitation_codes WHERE code = $1')
SelectInvitation(r) ==
    /\ req[r].pc = "select"
    /\ req' = [req EXCEPT ![r].rows = SelectByCode(req[r].code), ![r].pc = "check"]
    /\ UNCHANGED <<now, users, invitations, userSeq, invSeq, last, plaidItems,
                   plaidSeq, listing>>

CheckInvitation(r) ==
    /\ req[r].pc = "check"
    /\ LET e == ValidationError(req[r].rows, req[r].email, now)
       IN  req' = [req EXCEPT ![r] =
                IF e # ""
                THEN Respond(req[r], 400, e, NoToken)
                ELSE [@ EXCEPT !.pc = "begin"]]
    /\ UNCHANGED <<now, users, invitations, userSeq, invSeq, last, plaidItems,
                   plaidSeq, listing>>

\* await bcrypt.hash(password, saltRounds); await pool.connect();
\* await client.query('BEGIN')
Begin(r) ==
    /\ req[r].pc = "begin"
    /\ req' = [req EXCEPT ![r].pc = "insert", ![r].txNow = now]
    /\ UNCHANGED <<now, users, invitations, userSeq, invSeq, last, plaidItems,
                   plaidSeq, listing>>

\* The rows of the transaction of r, as COMMIT makes them visible.
CommittedUsers(r) ==
    users \cup {[id |-> req[r].userId, email |-> req[r].email,
                 password_hash |-> BcryptHash(req[r].password),
                 created_at |-> req[r].txNow]}

\* (mutant) the UPDATE without used_at = NOW()
CommittedInvitations_NoUsedAt(r) ==
    {IF i.id = req[r].rows[1].id
     THEN [i EXCEPT !.used = TRUE, !.used_by = req[r].userId]
     ELSE i : i \in invitations}

\* (mutant) the UPDATE without its WHERE id = $2
CommittedInvitations_NoWhere(r) ==
    {[i EXCEPT !.used = TRUE, !.used_by = req[r].userId, !.used_at = req[r].txNow] :
        i \in invitations}

CommittedInvitations(r) ==
    {IF i.id = req[r].rows[1].id
     THEN [i EXCEPT !.used = TRUE, !.used_by = req[r].userId, !.used_at = req[r].txNow]
     ELSE i : i \in invitations}

\* (mutant) users.email without its UNIQUE constraint
EmailTaken_NoUnique(r) == FALSE

\* The unique index on users.email, as the INSERT of r sees it.
EmailTaken(r) == \E u \in users : u.email = req[r].email

\* The INSERT waits while another open transaction holds an uncommitted row
\* with the same email.
InsertMayRun(r) ==
    ~\E q \in Reqs \ {r} : PendingInsert(q) /\ req[q].email = req[r].email

\* (mutant) the INSERT sent through the pool: it commits on its own
InsertUser_Autocommit(r, dbError) ==
    /\ req[r].pc = "insert"
    /\ userSeq' = userSeq + 1
    /\ IF dbError
       THEN /\ req' = [req EXCEPT ![r].pc = "rollback", ![r].errcode = "other"]
            /\ UNCHANGED users
       ELSE IF \E u \in users : u.email = req[r].email
       THEN /\ req' = [req EXCEPT ![r].pc = "rollback", ![r].errcode = "23505"]
            /\ UNCHANGED users
       ELSE /\ req' = [req EXCEPT ![r].pc = "update", ![r].userId = userSeq + 1]
            /\ users' = users \cup {[id |-> userSeq + 1, email |-> req[r].email,
                                     password_hash |-> BcryptHash(req[r].password),
                                     created_at |-> req[r].txNow]}
    /\ UNCHANGED <<now, invitations, invSeq, last, plaidItems, plaidSeq, listing>>

\* INSERT INTO users (email, password_hash, created_at) ... RETURNING id, email
\* dbError: the statement fails for a reason other than the unique index.
InsertUser(r, dbError) ==
    /\ req[r].pc = "insert"
    /\ InsertMayRun(r)
    /\ userSeq' = userSeq + 1
    /\ req' = [req EXCEPT ![r] =
            IF dbError THEN [@ EXCEPT !.pc = "rollback", !.errcode = "other"]
            ELSE IF EmailTaken(r) THEN [@ EXCEPT !.pc = "rollback", !.errcode = "23505"]
            ELSE [@ EXCEPT !.pc = "update", !.userId = userSeq + 1]]
    /\ UNCHANGED <<now, users, invitations, invSeq, last, plaidItems, plaidSeq,
                   listing>>

\* The row lock of the UPDATE: it waits for an open transaction that has
\* updated the same row.
UpdateMayRun(r) ==
    ~\E q \in Reqs \ {r} : PendingUpdate(q) /\ req[q].rows[1].id = req[r].rows[1].id

\* (mutant) the UPDATE sent through the pool: it commits on its own
UpdateInvitation_Autocommit(r, dbError) ==
    /\ req[r].pc = "update"
    /\ IF dbError
       THEN /\ req' = [req EXCEPT ![r].pc = "rollback", ![r].errcode = "other"]
            /\ UNCHANGED invitations
       ELSE /\ req' = [req EXCEPT ![r].pc = "commit", ![r].updated = TRUE]
            /\ invitations' = CommittedInvitations(r)
    /\ UNCHANGED <<now, users, userSeq, invSeq, last, plaidItems, plaidSeq, listing>>

\* UPDATE invitation_codes SET used = TRUE, used_by = $1, used_at = NOW() WHERE id = $2
UpdateInvitation(r, dbError) ==
    /\ req[r].pc = "update"
    /\ UpdateMayRun(r)
    /\ req' = [req EXCEPT ![r] =
            IF dbError THEN [@ EXCEPT !.pc = "rollback", !.errcode = "other"]
            ELSE [@ EXCEPT !.pc = "commit", !.updated = TRUE]]
    /\ UNCHANGED <<now, users, invitations, userSeq, invSeq, last, plaidItems,
                   plaidSeq, listing>>

\* await client.query('COMMIT')
Commit(r, dbError) ==
    /\ req[r].pc = "commit"
    /\ IF dbError
       THEN /\ req' = [req EXCEPT ![r].pc = "rollback", ![r].errcode = "other"]
            /\ UNCHANGED <<users, invitations>>
       ELSE /\ users' = CommittedUsers(r)
            /\ invitations' = CommittedInvitations(r)
            /\ req' = [req EXCEPT ![r].pc = "sign", ![r].committed = TRUE]
    /\ UNCHANGED <<now, userSeq, invSeq, last, plaidItems, plaidSeq, listing>>

\* jwt.sign(...) and res.status(201).json(...); signError: jwt.sign throws.
SignAndRespond(r, signError) ==
    /\ req[r].pc = "sign"
    /\ req' = [req EXCEPT ![r] =
            IF signError THEN [@ EXCEPT !.pc = "rollback", !.errcode = "other"]
            ELSE Respond(req[r], 201, "",
                         JwtSign(req[r].userId, req[r].email, JwtSecret, now))]
    /\ UNCHANGED <<now, users, invitations, userSeq, invSeq, last, plaidItems,
                   plaidSeq, listing>>

\* (mutant) the outer catch without its test of error.code
CatchStatus_Generic(errcode) == 500

\* The status and message of the outer catch block.
CatchStatus(errcode) == IF errcode = "23505" THEN 400 ELSE 500

CatchError(errcode) ==
    IF errcode = "23505" THEN "Email already registered" ELSE "Registration failed"

\* catch: await client.query('ROLLBACK'); throw; finally release; outer catch.
Rollback(r) ==
    /\ req[r].pc = "rollback"
    /\ req' = [req EXCEPT ![r] =
            Respond(req[r], CatchStatus(req[r].errcode), CatchError(req[r].errcode),
                    NoToken)]
    /\ UNCHANGED <<now, users, invitations, userSeq, invSeq, last, plaidItems,
                   plaidSeq, listing>>

\* ------------------------------------------ POST /api/admin/invitations
\* (mutant) the expiresInDays of the body ignored
ExpiresAt_IgnoreDays(days, at) == at + DefaultExpiresInDays

\* expiresAt.setDate(expiresAt.getDate() + expiresInDays), default 30
ExpiresAt(days, at) == at + (IF days = NoDays THEN DefaultExpiresInDays ELSE days)

NewInvitation(id, code, email, days, at) ==
    [id |-> id, code |-> code, email |-> email, used |-> FALSE, used_by |-> NULL,
     created_at |-> at, used_at |-> NULL, expires_at |-> ExpiresAt(days, at)]

AdminResp(status, error) ==
    [NoResp EXCEPT !.op = "create", !.status = status, !.error = error]

\* headerKey is req.headers['x-admin-key'], queryKey is req.query.admin_key
\* (which this handler does not read).
AdminCreateInvitation(headerKey, queryKey, code, email, days) ==
    /\ invSeq < MaxInvSeq
    /\ IF headerKey # AdminKey
       THEN /\ last' = AdminResp(401, "Unauthorized")
            /\ UNCHANGED <<invitations, invSeq>>
       ELSE IF code = NoCode \/ email = ""
       THEN /\ last' = AdminResp(400, "Code and email are required")
            /\ UNCHANGED <<invitations, invSeq>>
       ELSE /\ invSeq' = invSeq + 1
            /\ IF \E i \in invitations : i.code = code
               THEN /\ last' = AdminResp(400, "Invitation code already exists")
                    /\ UNCHANGED invitations
               ELSE /\ last' = AdminResp(201, "")
                    /\ invitations' = invitations \cup
                           {NewInvitation(invSeq + 1, code, email, days, now)}
    /\ UNCHANGED <<now, users, userSeq, req, plaidItems, plaidSeq, listing>>

\* ------------------------------------------- GET /api/admin/invitations
\* CASE WHEN expires_at < NOW() THEN true ELSE false END as expired
\* (a comparison with NULL is not true)
ListedExpired(i, at) == i.expires_at # NULL /\ i.expires_at < at

ListedRow(i, at) ==
    [id |-> i.id, code |-> i.code, email |-> i.email, used |-> i.used,
     used_by |-> i.used_by, created_at |-> i.created_at, used_at |-> i.used_at,
     expires_at |-> i.expires_at, expired |-> ListedExpired(i, at)]

\* ORDER BY created_at DESC: the orders in which the rows may be returned
\* (rows with the same created_at come in any order).
OrderedByCreatedAt(rows) ==
    {s \in [1..Cardinality(rows) -> rows] :
        /\ \A a, b \in 1..Cardinality(rows) : a # b => s[a] # s[b]
        /\ \A a, b \in 1..Cardinality(rows) :
              a < b => s[a].created_at >= s[b].created_at}

\* used = false AND (expires_at IS NULL OR expires_at > NOW())
Available(i, at) == ~i.used /\ (i.expires_at = NULL \/ i.expires_at > at)

\* The row of the second SELECT (COUNT(*) and its FILTERs).
Stats(at) ==
    [total |-> Cardinality(invitations),
     used_count |-> Cardinality({i \in invitations : i.used}),
     available |-> Cardinality({i \in invitations : Available(i, at)}),
     expired |-> Cardinality({i \in invitations : ListedExpired(i, at)})]

ListResp(status, error, rows, stats) ==
    [NoResp EXCEPT !.op = "list", !.status = status, !.error = error,
                   !.invitations = rows, !.stats = stats]

\* The key check and the first SELECT.  headerKey is
\* req.headers['x-admin-key'] (which this handler does not read), queryKey is
\* req.query.admin_key; dbError: the SELECT fails.
AdminListInvitations(headerKey, queryKey, dbError) ==
    /\ listing.pc = "idle"
    /\ IF queryKey # AdminKey
       THEN /\ last' = ListResp(401, "Unauthorized", <<>>, NoStats)
            /\ UNCHANGED listing
       ELSE IF dbError
       THEN /\ last' = ListResp(500, "Failed to fetch invitations", <<>>, NoStats)
            /\ UNCHANGED listing
       ELSE /\ \E s \in OrderedByCreatedAt({ListedRow(i, now) : i \in invitations}) :
                   listing' = [pc |-> "stats", rows |-> s]
            /\ UNCHANGED last
    /\ UNCHANGED <<now, users, invitations, userSeq, invSeq, req, plaidItems, plaidSeq>>

\* The second SELECT and res.json({invitations, stats}).
AdminListStats(dbError) ==
    /\ listing.pc = "stats"
    /\ last' = IF dbError
               THEN ListResp(500, "Failed to fetch invitations", <<>>, NoStats)
               ELSE ListResp(200, "", listing.rows, Stats(now))
    /\ listing' = NoListing
    /\ UNCHANGED <<now, users, invitations, userSeq, invSeq, req, plaidItems, plaidSeq>>

\* ------------------------------------------ POST /api/verify-invitation
VerifyResp(code, status, error, valid, domain) ==
    [NoResp EXCEPT !.op = "verify", !.code = code, !.status = status,
                   !.error = error, !.valid = valid, !.emailDomain = domain]

\* (mutant) the expiry check placed before the used check
VerifyInvitation_ExpiryFirst(code) ==
    /\ LET rows == SelectByCode(code)
       IN  last' =
             IF code = NoCode
             THEN VerifyResp(code, 400, "Invitation code required", FALSE, "")
             ELSE IF Len(rows) = 0
             THEN VerifyResp(code, 404, "Invalid invitation code", FALSE, "")
             ELSE IF rows[1].expires_at # NULL /\ now > rows[1].expires_at
             THEN VerifyResp(code, 410, "Invitation code has expired", FALSE, "")
             ELSE IF rows[1].used
             THEN VerifyResp(code, 409, "Invitation code already used", FALSE, "")
             ELSE VerifyResp(code, 200, "", TRUE, EmailDomain(rows[1].email))
    /\ UNCHANGED <<now, users, invitations, userSeq, invSeq, req, plaidItems,
                   plaidSeq, listing>>

VerifyInvitation(code) ==
    /\ LET rows == SelectByCode(code)
       IN  last' =
             IF code = NoCode
             THEN VerifyResp(code, 400, "Invitation code required", FALSE, "")
             ELSE IF Len(rows) = 0
             THEN VerifyResp(code, 404, "Invalid invitation code", FALSE, "")
             ELSE IF rows[1].used
             THEN VerifyResp(code, 409, "Invitation code already used", FALSE, "")
             ELSE IF IsExpired(rows[1], now)
             THEN VerifyResp(code, 410, "Invitation code has expired", FALSE, "")
             ELSE VerifyResp(code, 200, "", TRUE, EmailDomain(rows[1].email))
    /\ UNCHANGED <<now, users, invitations, userSeq, invSeq, req, plaidItems,
                   plaidSeq, listing>>

\* ------------------------------------------------------ POST /api/login
NoPassword == ""              \* a body without password (undefined)
LoginPasswords == Passwords \cup {"wrong", NoPassword}

LoginResp(status, error, token) ==
    [NoResp EXCEPT !.op = "login", !.status = status, !.error = error,
                   !.token = token]

\* 'SELECT * FROM users WHERE email = $1' -> result.rows
SelectUserByEmail(email) ==
    IF \E u \in users : u.email = email
    THEN <<CHOOSE u \in users : u.email = email>>
    ELSE <<>>

\* The handler reads the database once (the SELECT); bcrypt.compare throws on
\* a missing password.  dbError: the SELECT fails.
Login(email, password, dbError) ==
    /\ LET rows == SelectUserByEmail(email)
       IN  last' =
             IF dbError THEN LoginResp(500, "Login failed", NoToken)
             ELSE IF Len(rows) = 0
             THEN LoginResp(401, "Invalid credentials", NoToken)
             ELSE IF password = NoPassword
             THEN LoginResp(500, "Login failed", NoToken)
             ELSE IF ~BcryptCompare(password, rows[1].password_hash)
             THEN LoginResp(401, "Invalid credentials", NoToken)
             ELSE LoginResp(200, "",
                            JwtSign(rows[1].id, rows[1].email, JwtSecret, now))
    /\ UNCHANGED <<now, users, invitations, userSeq, invSeq, req, plaidItems,
                   plaidSeq, listing>>

\* ------------------------------------- authenticateToken and its routes
\* The Authorization header carries a token, or NoToken when the header is
\* absent or holds no second word.  The result: the status authenticateToken
\* answers with (0 when it calls next()) and req.user.
AuthenticateToken(token) ==
    IF token = NoToken
    THEN [status |-> 401, error |-> "Access token required", user |-> <<>>]
    ELSE IF JwtVerify(token, JwtSecret, now) = <<>>
    THEN [status |-> 403, error |-> "Invalid token", user |-> <<>>]
    ELSE [status |-> 0, error |-> "", user |-> JwtVerify(token, JwtSecret, now)]

PlaidResp(op, status, error, calls) ==
    [NoResp EXCEPT !.op = op, !.status = status, !.error = error, !.calls = calls]

\* 'SELECT access_token FROM plaid_items WHERE user_id = $1' -> rows
UserTokens(userId) == {p \in plaidItems : p.user_id = userId}

\* POST /api/create_link_token.  plaidOk: linkTokenCreate resolves.
CreateLinkToken(token, plaidOk) ==
    /\ LET auth == AuthenticateToken(token)
       IN  last' =
             IF auth.status # 0
             THEN PlaidResp("create_link_token", auth.status, auth.error, 0)
             ELSE IF ~plaidOk
             THEN PlaidResp("create_link_token", 500, "Failed to create link token", 1)
             ELSE PlaidResp("create_link_token", 200, "", 1)
    /\ UNCHANGED <<now, users, invitations, userSeq, invSeq, req, plaidItems,
                   plaidSeq, listing>>

\* POST /api/exchange_public_token.  plaidOk: itemPublicTokenExchange
\* resolves; dbError: the INSERT fails.  user_id REFERENCES users(id).
ExchangePublicToken(token, plaidOk, dbError) ==
    /\ plaidSeq < MaxPlaidItems
    /\ LET auth == AuthenticateToken(token)
           op == "exchange_public_token"
       IN  IF auth.status # 0
           THEN /\ last' = PlaidResp(op, auth.status, auth.error, 0)
                /\ UNCHANGED <<plaidItems, plaidSeq>>
           ELSE IF ~plaidOk
           THEN /\ last' = PlaidResp(op, 500, "Failed to link account", 1)
                /\ UNCHANGED <<plaidItems, plaidSeq>>
           ELSE /\ plaidSeq' = plaidSeq + 1
                /\ IF dbError \/ ~\E u \in users : u.id = auth.user[1].userId
                   THEN /\ last' = PlaidResp(op, 500, "Failed to link account", 1)
                        /\ UNCHANGED plaidItems
                   ELSE /\ last' = PlaidResp(op, 200, "", 1)
                        /\ plaidItems' = plaidItems \cup
                               {[id |-> plaidSeq + 1, user_id |-> auth.user[1].userId,
                                 access_token |-> "access-token", item_id |-> "item-id",
                                 created_at |-> now]}
    /\ UNCHANGED <<now, users, invitations, userSeq, invSeq, req, listing>>

\* The handlers that read the user's plaid_items and call the Plaid client
\* once per row.  dbError: the SELECT fails; failAt: the call that rejects
\* (0 when all resolve).
PlaidFetch(op, error, token, dbError, failAt) ==
    /\ LET auth == AuthenticateToken(token)
           n == IF auth.status = 0
                THEN Cardinality(UserTokens(auth.user[1].userId)) ELSE 0
       IN  /\ failAt <= n
           /\ last' =
                 IF auth.status # 0 THEN PlaidResp(op, auth.status, auth.error, 0)
                 ELSE IF dbError THEN PlaidResp(op, 500, error, 0)
                 ELSE IF failAt > 0 THEN PlaidResp(op, 500, error, failAt)
                 ELSE PlaidResp(op, 200, "", n)
    /\ UNCHANGED <<now, users, invitations, userSeq, invSeq, req, plaidItems,
                   plaidSeq, listing>>

\* GET /api/accounts
Accounts(token, dbError, failAt) ==
    PlaidFetch("accounts", "Failed to fetch accounts", token, dbError, failAt)

\* GET /api/transactions
Transactions(token, dbError, failAt) ==
    PlaidFetch("transactions", "Failed to fetch transactions", token, dbError, failAt)

\* GET /api/liabilities
Liabilities(token, dbError, failAt) ==
    PlaidFetch("liabilities", "Failed to fetch liabilities", token, dbError, failAt)

\* POST /api/refresh_transactions
RefreshTransactions(token, dbError, failAt) ==
    PlaidFetch("refresh_transactions", "Failed to refresh data", token, dbError, failAt)

\* GET /api/investments
Investments(token) ==
    /\ LET auth == AuthenticateToken(token)
       IN  last' =
             IF auth.status # 0 THEN PlaidResp("investments", auth.status, auth.error, 0)
             ELSE PlaidResp("investments", 501,
                    "Investments data not available yet - waiting for Plaid approval", 0)
    /\ UNCHANGED <<now, users, invitations, userSeq, invSeq, req, plaidItems,
                   plaidSeq, listing>>

\* ---------------------------------------------------------- behaviours
\* One step of register request r.
RegisterStep(r) ==
    \/ \E e \in Emails, p \in Passwords, c \in Codes \cup {NoCode} :
          RegisterArrive(r, e, p, c)
    \/ SelectInvitation(r)
    \/ CheckInvitation(r)
    \/ Begin(r)
    \/ \E f \in BOOLEAN : InsertUser(r, f)
    \/ \E f \in BOOLEAN : UpdateInvitation(r, f)
    \/ \E f \in BOOLEAN : Commit(r, f)
    \/ \E f \in BOOLEAN : SignAndRespond(r, f)
    \/ Rollback(r)

AdminStep ==
    \E hk \in AdminKeyInputs, qk \in AdminKeyInputs, c \in Codes \cup {NoCode},
       e \in Emails \cup {""}, d \in DaysInputs :
           AdminCreateInvitation(hk, qk, c, e, d)

ListStep ==
    \/ \E hk \in AdminKeyInputs, qk \in AdminKeyInputs, f \in BOOLEAN :
          AdminListInvitations(hk, qk, f)
    \/ \E f \in BOOLEAN : AdminListStats(f)

VerifyStep == \E c \in Codes \cup {NoCode} : VerifyInvitation(c)

LoginStep ==
    \E e \in Emails, p \in LoginPasswords, f \in BOOLEAN : Login(e, p, f)

\* The tokens a client holds: those issued by a register request that has
\* answered 201 and by the last login.
HeldTokens ==
    {req[r].token : r \in {q \in Reqs : req[q].pc = "done" /\ req[q].status = 201}}
        \cup (IF last.op = "login" /\ last.status = 200 THEN {last.token} ELSE {})

\* What a request may send: no token, a held token, a held token signed with
\* another secret, or a string that is no token.
Forged(t) == [t EXCEPT !.sig = "forged"]
MalformedToken == [NoToken EXCEPT !.sig = "malformed"]
TokenInputs ==
    {NoToken, MalformedToken} \cup HeldTokens \cup {Forged(t) : t \in HeldTokens}

PlaidStep ==
    \E t \in TokenInputs :
        \/ \E ok \in BOOLEAN : CreateLinkToken(t, ok)
        \/ \E ok \in BOOLEAN, f \in BOOLEAN : ExchangePublicToken(t, ok, f)
        \/ \E f \in BOOLEAN, k \in 0..MaxPlaidItems : Accounts(t, f, k)
        \/ \E f \in BOOLEAN, k \in 0..MaxPlaidItems : Transactions(t, f, k)
        \/ \E f \in BOOLEAN, k \in 0..MaxPlaidItems : Liabilities(t, f, k)
        \/ \E f \in BOOLEAN, k \in 0..MaxPlaidItems : RefreshTransactions(t, f, k)
        \/ Investments(t)

\* The whole server.
Next ==
    \/ Tick
    \/ AdminStep
    \/ \E r \in Reqs : RegisterStep(r)
    \/ VerifyStep
    \/ ListStep
    \/ LoginStep
    \/ PlaidStep

Spec == Init /\ [][Next]_vars

\* Registration under concurrency: NumReqs register requests, the clock and
\* the administrator.  VerifyInvitation writes only the variable last, which
\* no step of a register request reads, so leaving it out removes no
\* behaviour of users, invitations or req.
NextRegister ==
    \/ Tick
    \/ AdminStep
    \/ \E r \in Reqs : RegisterStep(r)

SpecRegister == Init /\ [][NextRegister]_vars

\* The invitation checks: verify-invitation requests next to one register
\* request, the clock and the administrator.
NextVerify ==
    \/ Tick
    \/ AdminStep
    \/ RegisterStep(1)
    \/ VerifyStep

SpecVerify == Init /\ [][NextVerify]_vars

\* The administrator: creation and listing of invitation codes, next to
\* verify-invitation requests and one register request.
NextAdmin ==
    \/ Tick
    \/ AdminStep
    \/ ListStep
    \/ VerifyStep
    \/ RegisterStep(1)

SpecAdmin == Init /\ [][NextAdmin]_vars

\* A database that already holds one invitation row written by other means
\* than the admin endpoint (CREATE TABLE IF NOT EXISTS keeps existing rows):
\* expires_at is a nullable column, and a used row has its user.
SeedRows ==
    {[id |-> 1, code |-> c, email |-> e, used |-> u,
      used_by |-> IF u THEN 1 ELSE NULL, created_at |-> 1,
      used_at |-> IF u THEN 1 ELSE NULL, expires_at |-> x] :
        c \in Codes, e \in Emails, u \in BOOLEAN, x \in {NULL} \cup Times}

SeedUsers(rows) ==
    {[id |-> i.used_by, email |-> i.email, password_hash |-> BcryptHash("secret1"),
      created_at |-> 1] : i \in {j \in rows : j.used}}

InitSeeded ==
    /\ now = 1
    /\ invitations \in {{row} : row \in SeedRows}
    /\ users = SeedUsers(invitations)
    /\ userSeq = Cardinality(users)
    /\ invSeq = 1
    /\ req = [r \in Reqs |-> IdleReq]
    /\ last = NoResp
    /\ plaidItems = {}
    /\ plaidSeq = 0
    /\ listing = NoListing

NextSeeded ==
    \/ Tick
    \/ RegisterStep(1)
    \/ VerifyStep

SpecSeeded == InitSeeded /\ [][NextSeeded]_vars

\* A database after one registration (the user of invitation ABC123) and the
\* creation of a second invitation.
InitAuth ==
    /\ now = 1
    /\ invitations =
          {[NewInvitation(1, "ABC123", "a@x.com", NoDays, 1)
               EXCEPT !.used = TRUE, !.used_by = 1, !.used_at = 1],
           NewInvitation(2, "XYZ789", "b@y.com", NoDays, 1)}
    /\ users = SeedUsers(invitations)
    /\ userSeq = 1
    /\ invSeq = 2
    /\ req = [r \in Reqs |-> IdleReq]
    /\ last = NoResp
    /\ plaidItems = {}
    /\ plaidSeq = 0
    /\ listing = NoListing

\* The routes behind authenticateToken with the tokens of login; the clock
\* runs past the validity of a token.
NextAuth ==
    \/ TickAuth
    \/ LoginStep
    \/ PlaidStep

SpecAuth == InitAuth /\ [][NextAuth]_vars

\* The life of a token: issued by a register request or by login, presented
\* to GET /api/accounts while the clock runs past its validity.
AccountsStep ==
    \E t \in TokenInputs, f \in BOOLEAN, k \in 0..MaxPlaidItems : Accounts(t, f, k)

NextToken ==
    \/ TickAuth
    \/ RegisterStep(1)
    \/ LoginStep
    \/ AccountsStep

SpecToken == InitAuth /\ [][NextToken]_vars

\* Every kind of request side by side: one register request, the
\* administrator, login, verify-invitation and the three fetches, on a
\* database that holds one registered user and the invitation it used.
InitApi ==
    /\ now = 1
    /\ invitations =
          {[NewInvitation(1, "ABC123", "a@x.com", NoDays, 1)
               EXCEPT !.used = TRUE, !.used_by = 1, !.used_at = 1]}
    /\ users = SeedUsers(invitations)
    /\ userSeq = 1
    /\ invSeq = 1
    /\ req = [r \in Reqs |-> IdleReq]
    /\ last = NoResp
    /\ plaidItems = {}
    /\ plaidSeq = 0
    /\ listing = NoListing

FetchStep ==
    \E t \in TokenInputs, f \in BOOLEAN, k \in 0..MaxPlaidItems :
        \/ Accounts(t, f, k)
        \/ Transactions(t, f, k)
        \/ Liabilities(t, f, k)

NextApi ==
    \/ Tick
    \/ AdminStep
    \/ RegisterStep(1)
    \/ LoginStep
    \/ VerifyStep
    \/ ListStep
    \/ FetchStep

SpecApi == InitApi /\ [][NextApi]_vars

\* ------------------------------------------------------------- claims
Done(r) == req[r].pc = "done"
Succeeded(r) == Done(r) /\ req[r].status = 201
Failed(r) == Done(r) /\ req[r].status \in {400, 500}

\* The register requests that use code c.
RequestsOf(c) == {r \in Reqs : req[r].pc # "idle" /\ req[r].code = c}

\* Request r found its code in the ledger when it looked it up.
FoundCode(r) == req[r].error # "Invalid invitation code"

\* C1: of the register requests that use one invitation code, never two have
\* succeeded; and when N >= 2 requests use a code that each of them found in
\* the ledger, that is bound to the email each supplies and has not expired,
\* no statement of theirs failed in the database or in jwt.sign (status 500)
\* and no request with another code registered that email, then once all
\* have answered, exactly one has answered 201 and the N-1 others have
\* answered with a failure.
C1_ExactlyOneSuccess ==
    \A c \in Codes :
        LET R == RequestsOf(c)
            won == {r \in R : Succeeded(r)}
        IN  /\ Cardinality(won) <= 1
            /\ ( /\ Cardinality(R) >= 2
                 /\ \A r \in R : Done(r) /\ FoundCode(r) /\ req[r].status # 500
                 /\ \E i \in invitations :
                        /\ i.code = c /\ ~IsExpired(i, now)
                        /\ \A r \in R : req[r].email = i.email
                 /\ \A r \in R, q \in Reqs \ R :
                        req[q].email = req[r].email => ~req[q].committed )
               => /\ Cardinality(won) = 1
                  /\ \A r \in R \ won : Failed(r)

\* Two requests raced for one code: the loser passed validation before the
\* winner committed and was stopped by the unique index.
C1_Witness ==
    \E r, q \in Reqs :
        /\ r # q /\ req[r].code = req[q].code
        /\ Succeeded(r)
        /\ Done(q) /\ req[q].status = 400 /\ req[q].error = "Email already registered"

\* The step is the COMMIT of request r taking effect.
Commits(r) == req[r].pc = "commit" /\ req'[r].committed

\* The committed row of the invitation with id n (ids are never reused).
InvitationById(n) == CHOOSE i \in invitations : i.id = n

\* C2: in every step, an invitation that is used stays used (with the same
\* used_by and used_at), a new invitation starts unused, and an invitation
\* goes from unused to used only in the step in which the transaction of a
\* register request commits, that transaction having updated this row and
\* the same step adding the user recorded in used_by.
C2_UsedOnceByCommit ==
    [][ /\ \A i \in invitations :
              \E j \in invitations' :
                  /\ j.id = i.id
                  /\ i.used => j.used /\ j.used_by = i.used_by /\ j.used_at = i.used_at
                  /\ (~i.used /\ j.used) =>
                        \E r \in Reqs :
                            /\ Commits(r)
                            /\ req[r].updated /\ req[r].rows[1].id = i.id
                            /\ j.used_by = req[r].userId
                            /\ \E u \in users' \ users :
                                   u.id = j.used_by /\ u.email = req[r].email
        /\ \A j \in invitations' :
              (~\E i \in invitations : i.id = j.id) => ~j.used
      ]_vars

\* An invitation has been consumed by a committed registration.
C2_Witness ==
    \E i \in invitations, r \in Reqs :
        i.used /\ req[r].committed /\ i.used_by = req[r].userId /\ i.code = req[r].code

\* C10: for every invitation, used_by and used_at are set exactly when used
\* is true, and used_by of a used invitation is the id of an existing user.
C10_UsedFieldsIffUsed ==
    \A i \in invitations :
        /\ i.used <=> i.used_by # NULL
        /\ i.used <=> i.used_at # NULL
        /\ i.used => \E u \in users : u.id = i.used_by

\* A used invitation next to an unused one.
C10_Witness ==
    \E i, j \in invitations : i.used /\ ~j.used

\* Request r answers in this step.
Answers(r) == ~Done(r) /\ req'[r].pc = "done"

\* C3 (as claimed): once a registration with a code has succeeded, every other
\* register request with that code that answers afterwards, and in which no
\* statement failed (its status is not 500), answers 400 'Invitation code
\* already used'.
C3_LaterAttemptsAlreadyUsed ==
    [][ \A r \in Reqs :
          ( /\ Answers(r)
            /\ req'[r].status # 500
            /\ \E q \in Reqs \ {r} : Succeeded(q) /\ req[q].code = req[r].code )
          => /\ req'[r].status = 400
             /\ req'[r].error = "Invitation code already used"
      ]_vars

\* C4 (as claimed): in the step in which a registration commits, the
\* invitation it consumes is, in the committed rows, still unused and not
\* expired.
C4_ValidAtCommit ==
    [][ \A r \in Reqs :
          Commits(r) =>
              LET i == InvitationById(req[r].rows[1].id)
              IN  ~i.used /\ ~IsExpired(i, now)
      ]_vars

\* The ids of the users whose registration has committed.
CommittedIds == {req[r].userId : r \in {q \in Reqs : req[q].committed}}

\* C5: every step of a register request other than its COMMIT taking effect
\* (so every step of a request whose INSERT or UPDATE fails, its ROLLBACK
\* included) leaves the committed users and invitations as they are; and in
\* every state the committed rows are those of committed registrations only,
\* in pairs: each user is the used_by of a used invitation bound to the
\* user's email, and each used invitation names an existing user.
C5_RollbackLeavesNothing ==
    /\ [][ (\E r \in Reqs : req'[r] # req[r] /\ ~Commits(r))
              => UNCHANGED <<users, invitations>> ]_vars
    /\ [](/\ \A u \in users :
                /\ u.id \in CommittedIds
                /\ \E i \in invitations :
                       i.used /\ i.used_by = u.id /\ i.email = u.email
          /\ \A i \in invitations :
                i.used => /\ i.used_by \in CommittedIds
                          /\ \E u \in users : u.id = i.used_by)

\* A request whose INSERT had returned an id and whose UPDATE (or COMMIT) then
\* failed has rolled back and answered 500: no user has that id or its email
\* and its invitation is unused.
C5_Witness ==
    \E r \in Reqs :
        /\ Done(r) /\ req[r].status = 500 /\ ~req[r].committed
        /\ req[r].userId # NULL
        /\ ~\E u \in users : u.id = req[r].userId \/ u.email = req[r].email
        /\ \E i \in invitations : i.code = req[r].code /\ ~i.used

EmailRegistered(email) == \E u \in users : u.email = email

\* C6: no two users share an email; a request holds an inserted, uncommitted
\* user row only while no user has its email (so a request with a registered
\* email never gets past its INSERT); a request whose INSERT met the unique
\* index has created no user and answers 400 'Email already registered'; and
\* when the user holding the email registered through another invitation,
\* the invitation of the refused request is unused, used_by and used_at unset.
C6_EmailTakenAborts ==
    /\ \A u, v \in users : u.email = v.email => u = v
    /\ \A r \in Reqs :
          req[r].pc \in {"update", "commit"} => ~EmailRegistered(req[r].email)
    /\ \A r \in Reqs :
          req[r].errcode = "23505" =>
              /\ ~req[r].committed /\ req[r].userId = NULL
              /\ EmailRegistered(req[r].email)
              /\ Done(r) => /\ req[r].status = 400
                            /\ req[r].error = "Email already registered"
              /\ \A i \in invitations :
                    ( /\ i.code = req[r].code
                      /\ \A u \in users : u.email = req[r].email => u.id # i.used_by )
                    => ~i.used /\ i.used_by = NULL /\ i.used_at = NULL

\* A request with a valid, unused invitation was refused because its email
\* had been registered through another invitation.
C6_Witness ==
    \E r \in Reqs, i \in invitations :
        /\ Done(r) /\ req[r].error = "Email already registered"
        /\ i.code = req[r].code /\ i.email = req[r].email /\ ~i.used
        /\ EmailRegistered(req[r].email)

\* C7: a register request that answers 201 has created the user with its
\* email and id, the invitation of its code is used by that user, and its
\* token verifies to that user's {userId, email}; and a request whose code is
\* in the ledger, bound to its email and unexpired answers 201 when it is the
\* first to register that email (no other request has committed it) and no
\* statement of it failed (status 500).
C7_ValidTripleSucceeds ==
    \A r \in Reqs :
        /\ Succeeded(r) =>
              \E u \in users, i \in invitations :
                  /\ u.id = req[r].userId /\ u.email = req[r].email
                  /\ i.code = req[r].code /\ i.used /\ i.used_by = u.id
                  /\ JwtVerify(req[r].token, JwtSecret, now)
                        = <<[userId |-> u.id, email |-> u.email]>>
        /\ ( /\ Done(r) /\ FoundCode(r) /\ req[r].status # 500
             /\ \E i \in invitations :
                    i.code = req[r].code /\ i.email = req[r].email /\ ~IsExpired(i, now)
             /\ \A q \in Reqs \ {r} :
                    req[q].email = req[r].email => ~req[q].committed )
           => Succeeded(r)

\* A registration has succeeded.
C7_Witness ==
    \E r \in Reqs : Succeeded(r) /\ req[r].token.userId = req[r].userId

\* C8: when a register request has read its code's rows, it reports the first
\* that applies of: no row -> 'Invalid invitation code'; used -> 'Invitation
\* code already used'; expires_at before now -> 'Invitation code has expired';
\* bound email other than the supplied one -> 'Email does not match
\* invitation' (each with status 400); it goes on to the transaction only
\* when none applies; and a row without expires_at is never reported expired.
C8_ValidationOrder ==
    [][ \A r \in Reqs :
          (req[r].pc = "check" /\ req'[r].pc # "check") =>
              LET rows == req[r].rows
                  found == Len(rows) > 0
                  used == found /\ rows[1].used
                  past == found /\ rows[1].expires_at # NULL /\ rows[1].expires_at < now
                  other == found /\ rows[1].email # req[r].email
                  e == req'[r].error
              IN  /\ ~found => e = "Invalid invitation code"
                  /\ used => e = "Invitation code already used"
                  /\ (found /\ ~used /\ past) => e = "Invitation code has expired"
                  /\ (found /\ ~used /\ ~past /\ other)
                        => e = "Email does not match invitation"
                  /\ (found /\ ~used /\ ~past /\ ~other)
                        => e = "" /\ req'[r].pc = "begin"
                  /\ (found /\ rows[1].expires_at = NULL)
                        => e # "Invitation code has expired"
                  /\ e # "" => req'[r].pc = "done" /\ req'[r].status = 400
      ]_vars

\* A request was answered 'already used' for a used row whose bound email
\* also differs from the email it supplied: the earlier check decided.
C8_Witness ==
    \E r \in Reqs, i \in invitations :
        /\ Done(r) /\ req[r].error = "Invitation code already used"
        /\ i.code = req[r].code /\ i.used /\ i.email # req[r].email
        /\ IsExpired(i, now)

\* The expiry boundary in one step: every verify-invitation request for an
\* unused code, and every register request that checks the unused row it read,
\* accepts the code when now is before expires_at, rejects it as expired when
\* now is after expires_at, and at now = expires_at rejects it exactly if
\* expiredAtEqual.
ExpiryBoundary(expiredAtEqual) ==
    /\ \A c \in Codes :
          VerifyInvitation(c) =>
              \A i \in invitations :
                  (i.code = c /\ ~i.used /\ i.expires_at # NULL) =>
                      /\ now < i.expires_at => last'.status = 200 /\ last'.valid
                      /\ now > i.expires_at => last'.status = 410 /\ ~last'.valid
                      /\ now = i.expires_at =>
                            IF expiredAtEqual
                            THEN last'.status = 410 /\ ~last'.valid
                            ELSE last'.status = 200 /\ last'.valid
    /\ \A r \in Reqs :
          ( /\ req[r].pc = "check" /\ req'[r].pc # "check"
            /\ Len(req[r].rows) > 0 /\ ~req[r].rows[1].used
            /\ req[r].rows[1].expires_at # NULL ) =>
              LET x == req[r].rows[1].expires_at
                  expired == req'[r].error = "Invitation code has expired"
              IN  /\ now < x => ~expired
                  /\ now > x => expired
                  /\ now = x => (expired <=> expiredAtEqual)

\* C9 (as claimed): an invitation whose expires_at equals the current instant
\* is treated as expired by register validation and by verify-invitation; one
\* instant earlier it is accepted, one instant later it is rejected.
C9_ExpiredAtExpiresAt == [][ExpiryBoundary(TRUE)]_vars

\* C9 (amended): an invitation whose expires_at equals the current instant is
\* still accepted by register validation and by verify-invitation (it is
\* expired only when now is after expires_at); one instant earlier it is
\* accepted, one instant later it is rejected.
C9_AcceptedAtExpiresAt == [][ExpiryBoundary(FALSE)]_vars

\* At the instant expires_at, verify-invitation has answered 200 for a code
\* and a register request has passed the validation of the same code.
C9_Witness ==
    \E i \in invitations, r \in Reqs :
        /\ i.expires_at = now /\ ~i.used
        /\ last.op = "verify" /\ last.code = i.code /\ last.status = 200
        /\ req[r].pc = "begin" /\ req[r].rows[1].id = i.id

\* C11: no two invitations have the same used_by, and every user is the
\* used_by of exactly one invitation, whose bound email is the user's email.
C11_OneInvitationPerUser ==
    /\ \A i, j \in invitations :
          (i.used_by # NULL /\ i.used_by = j.used_by) => i = j
    /\ \A u \in users :
          \E i \in invitations :
              /\ i.used_by = u.id /\ i.email = u.email
              /\ \A j \in invitations : j.used_by = u.id => j = i

\* Two users have registered, each through an invitation of its own.
C11_Witness ==
    \E u, v \in users, i, j \in invitations :
        /\ u # v /\ i # j
        /\ i.used_by = u.id /\ j.used_by = v.id

\* C12: every verify-invitation request that supplies a code answers 404
\* with valid false when no invitation has the code; else 409 with valid
\* false when the invitation is used; else 410 with valid false when its
\* expires_at is before now; else 200 with valid true and emailDomain the
\* part of the bound email after '@'; and it changes no user and no
\* invitation.
C12_VerifyPrecedence ==
    [][ \A c \in Codes :
          VerifyInvitation(c) =>
              LET found == \E i \in invitations : i.code = c
                  i == CHOOSE j \in invitations : j.code = c
                  used == found /\ i.used
                  past == found /\ i.expires_at # NULL /\ i.expires_at < now
              IN  /\ ~found => last'.status = 404 /\ ~last'.valid
                  /\ used => last'.status = 409 /\ ~last'.valid
                  /\ (found /\ ~used /\ past) => last'.status = 410 /\ ~last'.valid
                  /\ (found /\ ~used /\ ~past) =>
                        /\ last'.status = 200 /\ last'.valid
                        /\ i.email = "a@x.com" => last'.emailDomain = "x.com"
                        /\ i.email = "b@y.com" => last'.emailDomain = "y.com"
                  /\ last'.status # 200 => last'.emailDomain = ""
                  /\ UNCHANGED <<users, invitations>>
      ]_vars

\* verify-invitation has answered 409 for a code that is used and also past
\* its expires_at: the earlier check decided.
C12_Witness ==
    \E i \in invitations :
        /\ last.op = "verify" /\ last.code = i.code /\ last.status = 409
        /\ i.used /\ IsExpired(i, now)

\* An admin listing request is refused in this step.
ListRefused ==
    /\ listing'.pc = "idle"
    /\ last'.op = "list" /\ last'.status = 401 /\ last'.invitations = <<>>

\* C13 (as claimed): an admin create or list request that supplies the
\* configured key in the x-admin-key header or in the admin_key query
\* parameter is served (not answered 401); a request whose header and query
\* parameter both differ from the key, or are absent, is answered 401,
\* returns no invitation rows and creates no invitation.
C13_KeyByEitherChannel ==
    [][ /\ \A hk \in AdminKeyInputs, qk \in AdminKeyInputs,
             c \in Codes \cup {NoCode}, e \in Emails \cup {""}, d \in DaysInputs :
              AdminCreateInvitation(hk, qk, c, e, d) =>
                  /\ (hk = AdminKey \/ qk = AdminKey) => last'.status # 401
                  /\ (hk # AdminKey /\ qk # AdminKey) =>
                        last'.status = 401 /\ UNCHANGED invitations
        /\ \A hk \in AdminKeyInputs, qk \in AdminKeyInputs, f \in BOOLEAN :
              AdminListInvitations(hk, qk, f) =>
                  /\ (hk = AdminKey \/ qk = AdminKey) => ~ListRefused
                  /\ (hk # AdminKey /\ qk # AdminKey) => ListRefused
      ]_vars

\* The step is a request with token t to one of the six routes behind
\* authenticateToken that the claim names.
AuthenticatedRequest(t) ==
    \/ \E ok \in BOOLEAN : CreateLinkToken(t, ok)
    \/ \E ok \in BOOLEAN, f \in BOOLEAN : ExchangePublicToken(t, ok, f)
    \/ \E f \in BOOLEAN, k \in 0..MaxPlaidItems :
          \/ Accounts(t, f, k)
          \/ Transactions(t, f, k)
          \/ Liabilities(t, f, k)
          \/ RefreshTransactions(t, f, k)

\* C14 (as claimed): a request to accounts, transactions, liabilities,
\* create_link_token, exchange_public_token or refresh_transactions without a
\* token, or with a token that is malformed, signed with another secret or
\* expired, is answered 401, makes no call to the Plaid client and writes no
\* plaid_items row.
C14_Unauthorized401 ==
    [][ \A t \in TokenInputs :
          ( /\ AuthenticatedRequest(t)
            /\ t = NoToken \/ t.sig # JwtSecret \/ now >= t.exp )
          => /\ last'.status = 401
             /\ last'.calls = 0
             /\ UNCHANGED <<plaidItems, plaidSeq>>
      ]_vars

\* C15: an admin create request with the configured key, a code and an email
\* answers 400 'Invitation code already exists' and leaves the invitations as
\* they are when an invitation has the code; otherwise it answers 201 and
\* adds exactly one invitation, with that code and email, unused, without
\* used_by and used_at, created now and expiring expiresInDays (30 when the
\* body has none) days after now; and no two invitations share a code.
C15_IssueOrDuplicate ==
    /\ [][ (last'.op = "create" /\ UNCHANGED <<now, users, req>>) =>
            \A qk \in AdminKeyInputs, c \in Codes, e \in Emails, d \in DaysInputs :
              AdminCreateInvitation(AdminKey, qk, c, e, d) =>
                  IF \E i \in invitations : i.code = c
                  THEN /\ last'.status = 400
                       /\ last'.error = "Invitation code already exists"
                       /\ UNCHANGED invitations
                  ELSE /\ last'.status = 201
                       /\ \E j \in invitations' \ invitations :
                              /\ invitations' = invitations \cup {j}
                              /\ j.code = c /\ j.email = e
                              /\ ~j.used /\ j.used_by = NULL /\ j.used_at = NULL
                              /\ j.created_at = now
                              /\ j.expires_at = now + (IF d = NoDays THEN 30 ELSE d)
          ]_vars
    /\ [](\A i, j \in invitations : i.code = j.code => i = j)

\* A create request was refused as a duplicate of an invitation that was
\* issued without expiresInDays and has been used since.
C15_Witness ==
    /\ last.op = "create" /\ last.error = "Invitation code already exists"
    /\ \E i \in invitations :
          i.used /\ i.expires_at = i.created_at + 30 /\ invSeq > i.id

\* C16: a token issued by login or by a register request verifies, at the
\* moment it is issued, to the id and email of the user it was issued for;
\* every token a client holds verifies to the same userId and email while
\* fewer than 7 days have passed since it was issued, and is rejected as
\* expired once more than 7 days have passed; a request to /api/accounts with
\* a held token passes authenticateToken in the first case and is refused,
\* without a call to the Plaid client, in the second; and no such request
\* changes users, invitations or plaid_items.
C16_TokenRoundTrip ==
    /\ [][ /\ \A e \in Emails, p \in LoginPasswords :
               (Login(e, p, FALSE) /\ last'.status = 200) =>
                   \E u \in users :
                       /\ u.email = e /\ last'.token.iat = now
                       /\ JwtVerify(last'.token, JwtSecret, now)
                             = <<[userId |-> u.id, email |-> e]>>
           /\ \A r \in Reqs :
               (Answers(r) /\ req'[r].status = 201) =>
                   /\ req'[r].token.iat = now
                   /\ JwtVerify(req'[r].token, JwtSecret, now)
                         = <<[userId |-> req[r].userId, email |-> req[r].email]>>
                   /\ \E u \in users :
                         u.id = req[r].userId /\ u.email = req[r].email
           /\ \A t \in HeldTokens, f \in BOOLEAN, k \in 0..MaxPlaidItems :
               Accounts(t, f, k) =>
                   /\ now < t.iat + 7 => last'.status \notin {401, 403}
                   /\ now > t.iat + 7 =>
                         last'.status \in {401, 403} /\ last'.calls = 0
                   /\ UNCHANGED <<users, invitations, plaidItems, plaidSeq>>
         ]_vars
    /\ [](\A t \in HeldTokens :
            /\ now < t.iat + 7 =>
                  /\ JwtVerify(t, JwtSecret, now)
                        = <<[userId |-> t.userId, email |-> t.email]>>
                  /\ JwtError(t, JwtSecret, now) = ""
            /\ now > t.iat + 7 =>
                  /\ JwtVerify(t, JwtSecret, now) = <<>>
                  /\ JwtError(t, JwtSecret, now) = "TokenExpiredError")

\* A token issued by a register request has been refused by /api/accounts
\* more than 7 days after it was issued.
C16_Witness ==
    \E r \in Reqs :
        /\ Succeeded(r) /\ now > req[r].token.iat + 7
        /\ last.op = "accounts" /\ last.status = 403

\* The routes that only read users and invitations.
ReadOnlyOps == {"login", "verify", "list", "accounts", "transactions", "liabilities"}

\* C17: in every step, every user stays as it is and every invitation stays,
\* with the same id, code, bound email, created_at and expires_at; an
\* invitation changes only in the step in which the transaction of a register
\* request that read it commits, and only if it was unused (so at most
\* once); and a step that answers a login, verify-invitation, admin listing,
\* accounts, transactions or liabilities request, or runs a query of the
\* admin listing, leaves users and invitations unchanged.
C17_Frame ==
    [][ /\ users \subseteq users'
        /\ \A i \in invitations :
              \E j \in invitations' :
                  /\ j.id = i.id /\ j.code = i.code /\ j.email = i.email
                  /\ j.created_at = i.created_at /\ j.expires_at = i.expires_at
                  /\ j # i =>
                        /\ ~i.used
                        /\ \E r \in Reqs : Commits(r) /\ req[r].rows[1].id = i.id
        /\ ( (last' # last /\ last'.op \in ReadOnlyOps) \/ listing' # listing )
              => UNCHANGED <<users, invitations>>
      ]_vars

\* Next to an invitation used earlier, a second invitation has been consumed
\* by a committed registration, and its user has then fetched its accounts.
C17_Witness ==
    \E i, j \in invitations, r \in Reqs :
        /\ i # j /\ i.used /\ j.used
        /\ req[r].committed /\ j.used_by = req[r].userId
        /\ last.op = "accounts" /\ last.status = 200

\* C18 (as claimed): a register request that has answered 201 has committed
\* its user and its invitation, and a register request that has answered 400
\* or 500 has changed nothing: its transaction has not committed, no user has
\* the id its INSERT returned and no invitation names that id in used_by.
C18_ChangesIff201 ==
    \A r \in Reqs :
        Done(r) =>
            /\ req[r].status = 201 => req[r].committed
            /\ req[r].status \in {400, 500} =>
                  /\ ~req[r].committed
                  /\ req[r].userId # NULL =>
                        /\ ~\E u \in users : u.id = req[r].userId
                        /\ ~\E i \in invitations : i.used_by = req[r].userId

\* C19 (as claimed): the expired flag of every row of the admin listing is
\* the verdict of validateInvitation and verify-invitation on that invitation
\* at the instant of the query; and at the instant of the stats query every
\* unused invitation satisfies exactly one of the filters of 'available' and
\* 'expired', and 'available' is the number of unused invitations that
\* verify-invitation accepts at that instant.
C19_ExpiryChecksAgree ==
    [][ /\ (listing.pc = "idle" /\ listing'.pc = "stats") =>
              \A k \in DOMAIN listing'.rows :
                  listing'.rows[k].expired
                      <=> IsExpired(InvitationById(listing'.rows[k].id), now)
        /\ (listing.pc = "stats" /\ last'.op = "list" /\ last'.status = 200) =>
              LET unused == {i \in invitations : ~i.used}
              IN  /\ \A i \in unused : Available(i, now) # ListedExpired(i, now)
                  /\ last'.stats.available
                        = Cardinality({i \in unused : ~IsExpired(i, now)})
      ]_vars
====
